---- MODULE Spec2Model ----
(***************************************************************************)
(* Model of packages/@glimmer/runtime/lib/compiler.ts: the component       *)
(* layout builder (ComponentLayoutBuilder, WrappedBuilder,                 *)
(* UnwrappedBuilder, ComponentTagBuilder, ComponentAttrsBuilder) and the   *)
(* component invocation compiler (ComponentBuilder).                       *)
(*                                                                         *)
(* Two state machines share the module:                                    *)
(*   Spec       - one ComponentLayoutBuilder, its configuration calls,     *)
(*                compile(), and the execution of the dynamic-tag wrapper  *)
(*                the compiler emits;                                      *)
(*   SpecInvoke - one ComponentBuilder over an opcode builder, its         *)
(*                static()/dynamic() calls and the execution of the        *)
(*                opcodes dynamic() emitted.                               *)
(***************************************************************************)
EXTENDS Integers, Sequences, FiniteSets, TLC

(***************************************************************************)
(* Bounds of the model.                                                    *)
(***************************************************************************)
\* longest attribute buffer the configuration calls build
MaxAttrs == 2
\* number of ComponentBuilder.static/dynamic calls on one opcode builder
MaxUnits == 2
\* largest named-argument hash of a component invocation
MaxHash == 2

(***************************************************************************)
(* Values.  JavaScript's undefined and null are the strings below; they    *)
(* are members of no name set.  Option<boolean> flags are BOOLEAN, FALSE   *)
(* standing for null: the code only ever tests their truthiness.           *)
(***************************************************************************)
Undefined == "undefined"
Null == "null"

TagNames == {"div", "span"}
TagFns == {"tagFn"}
AttrNames == {"class"}
AttrValues == {"x"}
AttrFns == {"attrFn"}

\* WireFormat.Expression values: a literal, a client-side function
\* expression, or no expression
NoExpr == [kind |-> Null, op |-> Null, fn |-> Null]
Literal(v) == [kind |-> "Literal", op |-> "", fn |-> v]
FunctionExpression(f) ==
    [kind |-> "ClientSideExpression", op |-> "FunctionExpression", fn |-> f]

\* WireFormat.Statement: [op, name, expr, locals, body]
Stmt(op, name, expr, locals, body) ==
    [op |-> op, name |-> name, expr |-> expr, locals |-> locals, body |-> body]
Simple(op, name, expr) == Stmt(op, name, expr, <<>>, <<>>)

(***************************************************************************)
(* Serialized templates (WireTemplate): block.prelude and block.head are   *)
(* optional, block.statements and block.yields are always present.         *)
(***************************************************************************)
BodyOnlyLayout ==
    [hasPrelude |-> FALSE, prelude |-> <<>>,
     hasHead |-> FALSE, head |-> <<>>,
     statements |-> <<Simple("Text", "hi", NoExpr)>>,
     yields |-> <<"default">>]

ElementLayout ==
    [hasPrelude |-> TRUE,
     prelude |-> <<Simple("OpenElement", "section", NoExpr)>>,
     hasHead |-> TRUE,
     head |-> <<Simple("StaticAttr", "id", Literal("own"))>>,
     statements |-> <<Simple("FlushElement", "", NoExpr),
                      Simple("Text", "hi", NoExpr),
                      Simple("CloseElement", "", NoExpr)>>,
     yields |-> <<>>]

Layouts == {BodyOnlyLayout, ElementLayout}

(***************************************************************************)
(* ComponentTagBuilder                                                     *)
(***************************************************************************)
NewTag ==
    [isDynamic |-> FALSE, isStatic |-> FALSE,
     staticTagName |-> Null, dynamicTagName |-> NoExpr]

getDynamic(t) == IF t.isDynamic THEN t.dynamicTagName ELSE NoExpr

getStatic(t) == IF t.isStatic THEN t.staticTagName ELSE Undefined

\* a variant of static() that also clears the dynamic setting
tag_static_clearing(t, tagName) ==
    [t EXCEPT !.isStatic = TRUE, !.staticTagName = tagName,
              !.isDynamic = FALSE, !.dynamicTagName = NoExpr]

tag_static(t, tagName) ==
    [t EXCEPT !.isStatic = TRUE, !.staticTagName = tagName]

tag_dynamic(t, tagName) ==
    [t EXCEPT !.isDynamic = TRUE,
              !.dynamicTagName = FunctionExpression(tagName)]

(***************************************************************************)
(* ComponentAttrsBuilder                                                   *)
(***************************************************************************)
NewBuffer == <<>>

\* a variant of static() that puts the new entry in front
attrs_static_prepend(buf, name, value) ==
    <<Simple("StaticAttr", name, Literal(value))>> \o buf

attrs_static(buf, name, value) ==
    Append(buf, Simple("StaticAttr", name, Literal(value)))

attrs_dynamic(buf, name, value) ==
    Append(buf, Simple("DynamicAttr", name, FunctionExpression(value)))

(***************************************************************************)
(* Programs.  compile() hands a block to scanning: the dynamic-tag path    *)
(* through scanBlock over a flat statement list, the other two paths       *)
(* through Scanner.scanLayout over a block with prelude and head.          *)
(***************************************************************************)
NoProgram ==
    [via |-> Null, block |-> [hasPrelude |-> FALSE, prelude |-> <<>>,
                              hasHead |-> FALSE, head |-> <<>>,
                              statements |-> <<>>, yields |-> <<>>]]

\* the statement list of a block: prelude, head, statements when the block
\* carries both a prelude and a head, the statements alone otherwise
BlockStatements(block) ==
    IF block.hasPrelude /\ block.hasHead
    THEN block.prelude \o block.head \o block.statements
    ELSE block.statements

\* a variant of the open guard that writes the buffer before the yield
OpenGuardBufferFirst(dynamicTag, buf) ==
    Stmt("Block", "with", dynamicTag, <<"tag">>,
         <<Simple("OpenDynamicElement", "tag", NoExpr)>>
         \o buf
         \o <<Simple("Yield", "%attrs%", NoExpr),
              Simple("FlushElement", "", NoExpr)>>)

OpenGuard(dynamicTag, buf) ==
    Stmt("Block", "with", dynamicTag, <<"tag">>,
         <<Simple("OpenDynamicElement", "tag", NoExpr),
           Simple("Yield", "%attrs%", NoExpr)>>
         \o buf
         \o <<Simple("FlushElement", "", NoExpr)>>)

CloseGuard(dynamicTag) ==
    Stmt("Block", "if", dynamicTag, <<>>,
         <<Simple("CloseElement", "", NoExpr)>>)

\* a variant of the dynamic-tag path that closes the element without a guard
WrappedDynamicUnguardedClose(layout, dynamicTag, buf) ==
    [via |-> "scanBlock",
     block |-> [hasPrelude |-> FALSE, prelude |-> <<>>,
                hasHead |-> FALSE, head |-> <<>>,
                statements |-> <<OpenGuard(dynamicTag, buf)>>
                               \o BlockStatements(layout)
                               \o <<Simple("CloseElement", "", NoExpr)>>,
                yields |-> layout.yields \o <<"%attrs%">>]]

WrappedDynamic(layout, dynamicTag, buf) ==
    [via |-> "scanBlock",
     block |-> [hasPrelude |-> FALSE, prelude |-> <<>>,
                hasHead |-> FALSE, head |-> <<>>,
                statements |-> <<OpenGuard(dynamicTag, buf)>>
                               \o BlockStatements(layout)
                               \o <<CloseGuard(dynamicTag)>>,
                yields |-> layout.yields \o <<"%attrs%">>]]

\* a variant of the static-tag path that keeps the template's prelude after
\* the component's open-element statement
WrappedStaticKeepsPrelude(layout, staticTag, buf) ==
    [via |-> "scanLayout",
     block |-> [layout EXCEPT
                  !.hasPrelude = TRUE,
                  !.prelude = <<Simple("OpenComponentElement", staticTag, NoExpr)>>
                              \o layout.prelude,
                  !.hasHead = TRUE,
                  !.head = buf]]

WrappedStatic(layout, staticTag, buf) ==
    [via |-> "scanLayout",
     block |-> [layout EXCEPT
                  !.hasPrelude = TRUE,
                  !.prelude = <<Simple("OpenComponentElement", staticTag, NoExpr)>>,
                  !.hasHead = TRUE,
                  !.head = buf]]

\* a variant that looks at the static tag first
WrappedCompileStaticFirst(layout, t, buf) ==
    IF t.isStatic
    THEN WrappedStatic(layout, getStatic(t), buf)
    ELSE IF getDynamic(t) # NoExpr
         THEN WrappedDynamic(layout, getDynamic(t), buf)
         ELSE WrappedStatic(layout, getStatic(t), buf)

WrappedCompile(layout, t, buf) ==
    LET dynamicTag == getDynamic(t) IN
    IF dynamicTag # NoExpr
    THEN WrappedDynamic(layout, dynamicTag, buf)
    ELSE WrappedStatic(layout, getStatic(t), buf)

\* a variant that appends the buffer after the template's own head
UnwrappedCompileHeadFirst(layout, buf) ==
    [via |-> "scanLayout",
     block |-> [layout EXCEPT
                  !.hasHead = TRUE,
                  !.head = IF layout.hasHead THEN layout.head \o buf ELSE buf]]

UnwrappedCompile(layout, buf) ==
    [via |-> "scanLayout",
     block |-> [layout EXCEPT
                  !.hasHead = TRUE,
                  !.head = IF layout.hasHead THEN buf \o layout.head ELSE buf]]

\* the statements Scanner.scanLayout reads from the block it is given: the
\* prelude, then the head, then the statements, each part that is present
ScanLayoutStatements(block) ==
    (IF block.hasPrelude THEN block.prelude ELSE <<>>)
    \o (IF block.hasHead THEN block.head ELSE <<>>)
    \o block.statements

\* the statement stream scanning works through for a compiled program
Stream(p) ==
    IF p.via = "scanLayout"
    THEN ScanLayoutStatements(p.block)
    ELSE p.block.statements

VARIABLES
    inner,      \* ComponentLayoutBuilder.inner: "unbound", "wrapped", "unwrapped"
    layout,     \* the bound strategy's layout
    tag,        \* WrappedBuilder.tag
    buffer,     \* the bound strategy's attrs.buffer
    program,    \* the Program the last facade operation returned: compile() alone returns one
    last,       \* the last facade operation and how it ended
    rpc,        \* execution of the program: 0 idle, else next statement
    opens,      \* element-open steps executed
    closes,     \* element-close steps executed
    tagEvals,   \* results of the tag-expression evaluations executed
    hist,       \* history of the facade calls: see NewHistory
    ops,        \* the opcode builder's instruction buffer
    locals,     \* local slots the opcode builder has allocated
    emitted,    \* the opcodes the last dynamic() call appended
    ilast,      \* the last ComponentBuilder call and how it ended
    units,      \* ComponentBuilder calls made so far
    pc,         \* execution of emitted: 0 idle, else next opcode
    trace,      \* names of the opcodes executed
    vmValue,    \* the value the last evaluation or slot read produced
    vmSlot,     \* the value held by the definition slot
    vmCond,     \* the result of the last test
    stopped     \* execution was cut short at the opcode at pc

lvars == <<inner, layout, tag, buffer, program, last, rpc, opens, closes, tagEvals, hist>>

Outcome(op, status) == [op |-> op, status |-> status]

ivars == <<ops, locals, emitted, ilast, units, pc, trace, vmValue, vmSlot, vmCond, stopped>>

vars == <<lvars, ivars>>

(***************************************************************************)
(* History of the calls made on the facade, kept beside the builder:       *)
(*   tick        flips at every facade operation                           *)
(*   bindOp,                                                               *)
(*   bindLayout  the most recent bind call and the template it was given   *)
(*   discarded   that bind replaced a strategy that had been configured    *)
(*   attrs       the entries the attrs calls since that bind asked for     *)
(*   static,                                                               *)
(*   dynamic     tag.static / tag.dynamic was called since that bind       *)
(*   lastTag     the most recent of those tag calls                        *)
(***************************************************************************)
NewHistory ==
    [tick |-> 0, bindOp |-> "none", bindLayout |-> BodyOnlyLayout,
     discarded |-> FALSE, attrs |-> <<>>,
     static |-> FALSE, dynamic |-> FALSE, lastTag |-> "none"]

Tick(h) == [h EXCEPT !.tick = 1 - h.tick]

Bound(h, op, l, configured) ==
    [tick |-> 1 - h.tick, bindOp |-> op, bindLayout |-> l,
     discarded |-> configured, attrs |-> <<>>,
     static |-> FALSE, dynamic |-> FALSE, lastTag |-> "none"]

RenderIdle == rpc' = 0 /\ opens' = 0 /\ closes' = 0 /\ tagEvals' = <<>>
RenderUnchanged == UNCHANGED <<rpc, opens, closes, tagEvals>>

LayoutInit ==
    /\ inner = "unbound"
    /\ layout = BodyOnlyLayout
    /\ tag = NewTag
    /\ buffer = NewBuffer
    /\ program = NoProgram
    /\ last = Outcome("new", "ok")
    /\ rpc = 0 /\ opens = 0 /\ closes = 0 /\ tagEvals = <<>>
    /\ hist = NewHistory

(***************************************************************************)
(* ComponentLayoutBuilder                                                  *)
(***************************************************************************)
\* a variant of wrapLayout that hands the old strategy's attributes on
wrapLayoutKeepsAttrs(l) ==
    /\ inner' = "wrapped"
    /\ layout' = l
    /\ tag' = NewTag
    /\ buffer' = buffer
    /\ last' = Outcome("wrapLayout", "ok")
    /\ hist' = Bound(hist, "wrapLayout", l,
                     inner # "unbound" /\ (buffer # NewBuffer \/ tag # NewTag))
    /\ program' = NoProgram
    /\ RenderIdle
    /\ UNCHANGED ivars

wrapLayout(l) ==
    /\ inner' = "wrapped"
    /\ layout' = l
    /\ tag' = NewTag
    /\ buffer' = NewBuffer
    /\ last' = Outcome("wrapLayout", "ok")
    /\ hist' = Bound(hist, "wrapLayout", l,
                     inner # "unbound" /\ (buffer # NewBuffer \/ tag # NewTag))
    /\ program' = NoProgram
    /\ RenderIdle
    /\ UNCHANGED ivars

\* a variant of fromLayout that keeps a strategy that is already bound
fromLayoutOnce(l) ==
    /\ inner' = IF inner = "unbound" THEN "unwrapped" ELSE inner
    /\ layout' = IF inner = "unbound" THEN l ELSE layout
    /\ tag' = IF inner = "unbound" THEN NewTag ELSE tag
    /\ buffer' = IF inner = "unbound" THEN NewBuffer ELSE buffer
    /\ last' = Outcome("fromLayout", "ok")
    /\ hist' = Bound(hist, "fromLayout", l,
                     inner # "unbound" /\ (buffer # NewBuffer \/ tag # NewTag))
    /\ program' = NoProgram
    /\ RenderIdle
    /\ UNCHANGED ivars

fromLayout(l) ==
    /\ inner' = "unwrapped"
    /\ layout' = l
    /\ tag' = NewTag
    /\ buffer' = NewBuffer
    /\ last' = Outcome("fromLayout", "ok")
    /\ hist' = Bound(hist, "fromLayout", l,
                     inner # "unbound" /\ (buffer # NewBuffer \/ tag # NewTag))
    /\ program' = NoProgram
    /\ RenderIdle
    /\ UNCHANGED ivars

\* a variant in which UnwrappedBuilder answers a tag read
TagAccessLenient(i) == IF i = "unbound" THEN "TypeError" ELSE "ok"

\* how reading builder.tag ends: this.inner is undefined on an unbound
\* builder, UnwrappedBuilder's getter throws
TagAccess(i) ==
    CASE i = "unbound" -> "TypeError"
      [] i = "unwrapped" -> "Error"
      [] OTHER -> "ok"

\* how reading builder.attrs ends
AttrsAccess(i) == IF i = "unbound" THEN "TypeError" ELSE "ok"

\* a variant in which an unbound builder answers compile()
CompileAccessLenient(i) == "ok"

\* how builder.compile() ends
CompileAccess(i) == IF i = "unbound" THEN "TypeError" ELSE "ok"

getTag ==
    /\ last' = Outcome("tag", TagAccess(inner))
    /\ hist' = Tick(hist)
    /\ program' = NoProgram
    /\ UNCHANGED <<inner, layout, tag, buffer>>
    /\ RenderIdle
    /\ UNCHANGED ivars

getAttrs ==
    /\ last' = Outcome("attrs", AttrsAccess(inner))
    /\ hist' = Tick(hist)
    /\ program' = NoProgram
    /\ UNCHANGED <<inner, layout, tag, buffer>>
    /\ RenderIdle
    /\ UNCHANGED ivars

tagStatic(tagName) ==
    /\ last' = Outcome("tag.static", TagAccess(inner))
    /\ hist' = IF TagAccess(inner) = "ok"
               THEN [Tick(hist) EXCEPT !.static = TRUE, !.lastTag = "static"]
               ELSE Tick(hist)
    /\ tag' = IF TagAccess(inner) = "ok" THEN tag_static(tag, tagName) ELSE tag
    /\ program' = NoProgram
    /\ UNCHANGED <<inner, layout, buffer>>
    /\ RenderIdle
    /\ UNCHANGED ivars

tagDynamic(tagName) ==
    /\ last' = Outcome("tag.dynamic", TagAccess(inner))
    /\ hist' = IF TagAccess(inner) = "ok"
               THEN [Tick(hist) EXCEPT !.dynamic = TRUE, !.lastTag = "dynamic"]
               ELSE Tick(hist)
    /\ tag' = IF TagAccess(inner) = "ok" THEN tag_dynamic(tag, tagName) ELSE tag
    /\ program' = NoProgram
    /\ UNCHANGED <<inner, layout, buffer>>
    /\ RenderIdle
    /\ UNCHANGED ivars

attrsStatic(name, value) ==
    /\ Len(hist.attrs) < MaxAttrs
    /\ last' = Outcome("attrs.static", AttrsAccess(inner))
    /\ hist' = IF AttrsAccess(inner) = "ok"
               THEN [Tick(hist) EXCEPT
                       !.attrs = Append(@, Simple("StaticAttr", name, Literal(value)))]
               ELSE Tick(hist)
    /\ buffer' = IF AttrsAccess(inner) = "ok"
                 THEN attrs_static(buffer, name, value) ELSE buffer
    /\ program' = NoProgram
    /\ UNCHANGED <<inner, layout, tag>>
    /\ RenderIdle
    /\ UNCHANGED ivars

attrsDynamic(name, value) ==
    /\ Len(hist.attrs) < MaxAttrs
    /\ last' = Outcome("attrs.dynamic", AttrsAccess(inner))
    /\ hist' = IF AttrsAccess(inner) = "ok"
               THEN [Tick(hist) EXCEPT
                       !.attrs = Append(@, Simple("DynamicAttr", name,
                                                  FunctionExpression(value)))]
               ELSE Tick(hist)
    /\ buffer' = IF AttrsAccess(inner) = "ok"
                 THEN attrs_dynamic(buffer, name, value) ELSE buffer
    /\ program' = NoProgram
    /\ UNCHANGED <<inner, layout, tag>>
    /\ RenderIdle
    /\ UNCHANGED ivars

compile ==
    /\ last' = Outcome("compile", CompileAccess(inner))
    /\ hist' = Tick(hist)
    /\ program' = CASE inner = "wrapped" -> WrappedCompile(layout, tag, buffer)
                    [] inner = "unwrapped" -> UnwrappedCompile(layout, buffer)
                    [] OTHER -> NoProgram
    /\ IF CompileAccess(inner) = "ok" THEN RenderIdle ELSE RenderUnchanged
    /\ UNCHANGED <<inner, layout, tag, buffer>>
    /\ UNCHANGED ivars

(***************************************************************************)
(* Execution of the dynamic-tag wrapper, as the lowering documented in     *)
(* WrappedBuilder.compile lays it out: each guard block puts the value of  *)
(* its own tag expression, tests it and jumps over its body unless it is   *)
(* truthy.  What a tag expression evaluates to is the environment's        *)
(* choice, made anew at every evaluation.  The execution followed is that  *)
(* of the program compile() returned last; the next facade call ends the   *)
(* following, it does not touch the program.                               *)
(***************************************************************************)
IsOpen(s) == s.op \in {"OpenDynamicElement", "OpenElement", "OpenComponentElement"}
IsClose(s) == s.op = "CloseElement"

RECURSIVE CountIn(_, _)
\* number of statements of ss that are opens (kind = "open") or closes
CountIn(ss, kind) ==
    IF ss = <<>> THEN 0
    ELSE (IF (kind = "open" /\ IsOpen(Head(ss))) \/ (kind = "close" /\ IsClose(Head(ss)))
          THEN 1 ELSE 0) + CountIn(Tail(ss), kind)

renderStart ==
    /\ last = Outcome("compile", "ok")
    /\ program.via = "scanBlock"
    /\ rpc = 0
    /\ rpc' = 1
    /\ opens' = 0 /\ closes' = 0 /\ tagEvals' = <<>>
    /\ UNCHANGED <<inner, layout, tag, buffer, program, last, hist>>
    /\ UNCHANGED ivars

renderStep ==
    /\ rpc \in 1..Len(Stream(program))
    /\ LET s == Stream(program)[rpc] IN
       IF s.op = "Block"
       THEN \E present \in BOOLEAN :
              /\ tagEvals' = Append(tagEvals, present)
              /\ opens' = opens + (IF present THEN CountIn(s.body, "open") ELSE 0)
              /\ closes' = closes + (IF present THEN CountIn(s.body, "close") ELSE 0)
       ELSE /\ tagEvals' = tagEvals
            /\ opens' = opens + (IF IsOpen(s) THEN 1 ELSE 0)
            /\ closes' = closes + (IF IsClose(s) THEN 1 ELSE 0)
    /\ rpc' = rpc + 1
    /\ UNCHANGED <<inner, layout, tag, buffer, program, last, hist>>
    /\ UNCHANGED ivars

RenderDone == program.via = "scanBlock" /\ rpc = Len(Stream(program)) + 1

LayoutNext ==
    \/ \E l \in Layouts : wrapLayout(l)
    \/ \E l \in Layouts : fromLayout(l)
    \/ getTag
    \/ getAttrs
    \/ \E n \in TagNames : tagStatic(n)
    \/ \E f \in TagFns : tagDynamic(f)
    \/ \E n \in AttrNames, v \in AttrValues : attrsStatic(n, v)
    \/ \E n \in AttrNames, f \in AttrFns : attrsDynamic(n, f)
    \/ compile
    \/ renderStart
    \/ renderStep


(***************************************************************************)
(* ComponentBuilder over an OpcodeBuilderDSL.  An opcode is a record       *)
(* [op, slot, count, names, flags, arg]; fields an opcode does not carry   *)
(* hold 0, <<>> or "".                                                     *)
(***************************************************************************)
Op(op, slot, count, names, flags, arg) ==
    [op |-> op, slot |-> slot, count |-> count, names |-> names,
     flags |-> flags, arg |-> arg]
Plain(op) == Op(op, 0, 0, <<>>, <<>>, "")
OnSlot(op, slot) == Op(op, slot, 0, <<>>, <<>>, "")
WithArg(op, arg) == Op(op, 0, 0, <<>>, <<>>, arg)

\* ComponentArgs: [params, hash, default, inverse], or missing
NoArgs == [present |-> FALSE, items |-> <<>>]
EmptyArgs == [present |-> TRUE, items |-> <<>>]
DefinitionArgs == {NoArgs, EmptyArgs,
                   [present |-> TRUE, items |-> <<"nameParam", "nameHash", Null, Null>>]}
Helpers == {"getDefinition"}
Definitions == {"staticDefinition"}

\* named-argument hashes: the keys, in order
HashNames == <<"title", "body", "footer">>
Hashes ==
    {SubSeq(HashNames, r[1], r[2]) :
        r \in {x \in (1..(Len(HashNames) + 1)) \X (0..Len(HashNames)) :
                  x[2] >= x[1] - 1 /\ x[2] - x[1] + 1 <= MaxHash}}
Blocks == {"defaultBlock"}
InvocationArgs == {<<"params", h, b, Null>> : h \in Hashes, b \in Blocks}

\* compileComponentArgs(hash, b): one evaluation per named argument, and
\* the packed slots, their count and the ordered names
compileComponentArgs(hash) ==
    [ops |-> [i \in 1..Len(hash) |-> WithArg("expr", hash[i])],
     count |-> Len(hash),
     names |-> hash,
     slots |-> hash]

\* the opcodes dynamic() appends once its argument check has passed
DynamicOps(definition, state, definitionArgs, getDefinition, args) ==
    LET hash == args[2]
        block == args[3]
        inverse == args[4]
        cca == compileComponentArgs(hash)
    IN  << Op("expr", 0, 0,
              <<definitionArgs.items[1], definitionArgs.items[2]>>, <<>>,
              getDefinition),
           OnSlot("setLocal", definition),
           OnSlot("getLocal", definition),
           WithArg("test", "simple"),
           WithArg("jumpUnless", "END"),
           OnSlot("pushDynamicComponentManager", definition),
           OnSlot("setComponentState", state),
           WithArg("pushBlock", block),
           WithArg("pushBlock", inverse) >>
        \o cca.ops \o
        << Plain("pushDynamicScope"),
           Op("pushComponentArgs", 0, cca.count, cca.slots, <<>>, ""),
           Op("createComponent", state, 0, <<>>, <<TRUE, FALSE>>, ""),
           OnSlot("registerComponentDestructor", state),
           Plain("beginComponentTransaction"),
           OnSlot("getComponentSelf", state),
           OnSlot("getComponentLayout", state),
           Op("invokeDynamic", 0, 0, cca.names, <<>>, "InvokeDynamicLayout"),
           OnSlot("didCreateElement", state),
           OnSlot("didRenderLayout", state),
           Plain("popScope"),
           Plain("popDynamicScope"),
           Plain("commitComponentTransaction") >>

\* index of the first opcode named op in s, 0 when there is none
RECURSIVE IndexFrom(_, _, _)
IndexFrom(s, op, i) ==
    IF i > Len(s) THEN 0
    ELSE IF s[i].op = op THEN i ELSE IndexFrom(s, op, i + 1)
IndexOf(s, op) == IndexFrom(s, op, 1)

\* s with the opcodes at i and j exchanged
Swap(s, i, j) == [k \in 1..Len(s) |-> IF k = i THEN s[j] ELSE IF k = j THEN s[i] ELSE s[k]]

MissingArgs(definitionArgs) ==
    ~definitionArgs.present \/ Len(definitionArgs.items) = 0

\* a variant that allocates the two locals before it checks the arguments
DynamicUnitLateCheck(nlocals, definitionArgs, getDefinition, args) ==
    IF MissingArgs(definitionArgs)
    THEN [status |-> "Error", ops |-> <<>>, locals |-> nlocals + 2]
    ELSE [status |-> "ok",
          ops |-> DynamicOps(nlocals + 1, nlocals + 2,
                             definitionArgs, getDefinition, args),
          locals |-> nlocals + 2]

\* the opcodes of a unit with the first opcodes named a and b exchanged
Exchanged(unit, a, b) == Swap(unit, IndexOf(unit, a), IndexOf(unit, b))

\* the code's unit with two of its opcodes exchanged
DynamicUnitExchanged(nlocals, definitionArgs, getDefinition, args, a, b) ==
    IF MissingArgs(definitionArgs)
    THEN [status |-> "Error", ops |-> <<>>, locals |-> nlocals]
    ELSE [status |-> "ok",
          ops |-> Exchanged(DynamicOps(nlocals + 1, nlocals + 2,
                                       definitionArgs, getDefinition, args), a, b),
          locals |-> nlocals + 2]

\* a variant that pushes the packed arguments with a count of zero
DynamicUnitNoCount(nlocals, definitionArgs, getDefinition, args) ==
    IF MissingArgs(definitionArgs)
    THEN [status |-> "Error", ops |-> <<>>, locals |-> nlocals]
    ELSE [status |-> "ok",
          ops |-> LET u == DynamicOps(nlocals + 1, nlocals + 2,
                                      definitionArgs, getDefinition, args)
                  IN  [k \in 1..Len(u) |->
                         IF u[k].op = "pushComponentArgs"
                         THEN [u[k] EXCEPT !.count = 0] ELSE u[k]],
          locals |-> nlocals + 2]

\* a variant that pushes the dynamic scope before the jump
DynamicUnitJumpAfterScope(nlocals, definitionArgs, getDefinition, args) ==
    DynamicUnitExchanged(nlocals, definitionArgs, getDefinition, args,
                         "jumpUnless", "pushDynamicScope")

\* a variant that registers the destructor after beginning the transaction
DynamicUnitLateDestructor(nlocals, definitionArgs, getDefinition, args) ==
    DynamicUnitExchanged(nlocals, definitionArgs, getDefinition, args,
                         "registerComponentDestructor", "beginComponentTransaction")

\* a variant that commits before popping the dynamic scope
DynamicUnitEarlyCommit(nlocals, definitionArgs, getDefinition, args) ==
    DynamicUnitExchanged(nlocals, definitionArgs, getDefinition, args,
                         "popDynamicScope", "commitComponentTransaction")

\* a variant that pushes the component manager before the jump
DynamicUnitLateJump(nlocals, definitionArgs, getDefinition, args) ==
    DynamicUnitExchanged(nlocals, definitionArgs, getDefinition, args,
                         "jumpUnless", "pushDynamicComponentManager")

\* what one dynamic() call does to the builder: its outcome, the opcodes it
\* appends and the number of locals allocated afterwards
DynamicUnit(nlocals, definitionArgs, getDefinition, args) ==
    IF MissingArgs(definitionArgs)
    THEN [status |-> "Error", ops |-> <<>>, locals |-> nlocals]
    ELSE [status |-> "ok",
          ops |-> DynamicOps(nlocals + 1, nlocals + 2,
                             definitionArgs, getDefinition, args),
          locals |-> nlocals + 2]

\* a ComponentBuilder call: its name, how it ended, its definition arguments
\* and the named-argument hash of its args
Call(op, status, definitionArgs, hash) ==
    [op |-> op, status |-> status, definitionArgs |-> definitionArgs,
     hash |-> hash]

IdleVM ==
    /\ pc' = 0 /\ trace' = <<>> /\ vmValue' = Null /\ vmSlot' = Null
    /\ vmCond' = FALSE /\ stopped' = FALSE

InvokeInit ==
    /\ ops = <<>>
    /\ locals = 0
    /\ emitted = <<>>
    /\ ilast = Call("new", "ok", NoArgs, <<>>)
    /\ units = 0
    /\ pc = 0 /\ trace = <<>> /\ vmValue = Null /\ vmSlot = Null
    /\ vmCond = FALSE /\ stopped = FALSE

static(definition, args) ==
    /\ units < MaxUnits
    /\ units' = units + 1
    /\ ops' = Append(ops, Op("ResolvedComponent", 0, 0, <<>>, <<>>, definition))
    /\ ilast' = Call("static", "ok", NoArgs, args[2])
    /\ UNCHANGED <<locals, emitted, pc, trace, vmValue, vmSlot, vmCond, stopped>>
    /\ UNCHANGED lvars

dynamic(definitionArgs, getDefinition, args) ==
    /\ units < MaxUnits
    /\ units' = units + 1
    /\ LET unit == DynamicUnit(locals, definitionArgs, getDefinition, args) IN
       /\ ops' = ops \o unit.ops
       /\ locals' = unit.locals
       /\ emitted' = unit.ops
       /\ ilast' = Call("dynamic", unit.status, definitionArgs, args[2])
    /\ IdleVM
    /\ UNCHANGED lvars

(***************************************************************************)
(* Execution of the opcodes one dynamic() call emitted.  The helper's      *)
(* result is the environment's choice; labelled() places END after the     *)
(* last opcode of its callback.                                            *)
(***************************************************************************)
LabelEND(unit) == Len(unit) + 1

vmStart ==
    /\ emitted # <<>>
    /\ pc = 0
    /\ pc' = 1
    /\ UNCHANGED <<ops, locals, emitted, ilast, units, trace, vmValue, vmSlot, vmCond, stopped>>
    /\ UNCHANGED lvars

vmStep ==
    /\ pc \in 1..Len(emitted)
    /\ ~stopped
    /\ LET o == emitted[pc] IN
       /\ trace' = Append(trace, o.op)
       /\ IF o.op = "expr"
          THEN \E v \in {"present", "absent"} : vmValue' = v
          ELSE vmValue' = IF o.op = "getLocal" THEN vmSlot ELSE vmValue
       /\ vmSlot' = IF o.op = "setLocal" THEN vmValue ELSE vmSlot
       /\ vmCond' = IF o.op = "test" THEN vmValue = "present" ELSE vmCond
       /\ pc' = IF o.op = "jumpUnless" /\ ~vmCond THEN LabelEND(emitted) ELSE pc + 1
    /\ UNCHANGED <<ops, locals, emitted, ilast, units, stopped>>
    /\ UNCHANGED lvars

vmFail ==
    /\ pc \in 1..Len(emitted)
    /\ ~stopped
    /\ stopped' = TRUE
    /\ UNCHANGED <<ops, locals, emitted, ilast, units, pc, trace, vmValue, vmSlot, vmCond>>
    /\ UNCHANGED lvars

InvokeNext ==
    \/ \E d \in Definitions, a \in InvocationArgs : static(d, a)
    \/ \E da \in DefinitionArgs, h \in Helpers, a \in InvocationArgs : dynamic(da, h, a)
    \/ vmStart
    \/ vmStep
    \/ vmFail

Init == LayoutInit /\ InvokeInit

Spec == Init /\ [][LayoutNext]_vars

SpecInvoke == Init /\ [][InvokeNext]_vars


(***************************************************************************)
(* Properties                                                              *)
(***************************************************************************)
TagOps == {"tag", "tag.static", "tag.dynamic"}
AttrsOps == {"attrs", "attrs.static", "attrs.dynamic"}
BindOps == {"wrapLayout", "fromLayout"}

\* the statements of ss with the body of every block statement put in
\* place right after the block statement
RECURSIVE Flatten(_)
Flatten(ss) ==
    IF ss = <<>> THEN <<>>
    ELSE <<Head(ss)>> \o Head(ss).body \o Flatten(Tail(ss))

Range(s) == {s[i] : i \in 1..Len(s)}
Count(s, op) == Cardinality({i \in 1..Len(s) : s[i].op = op})
Bit(b) == IF b THEN 1 ELSE 0

\* C1 as stated: an execution of the dynamic-tag wrapper evaluates the tag
\* expression exactly once and executes as many element opens as closes.
C1_SingleEvaluationBalanced ==
    RenderDone => Len(tagEvals) = 1 /\ opens = closes

\* C1 amended: the dynamic-tag wrapper holds two guard blocks, each carrying
\* the tag expression; an execution evaluates the expression twice, once per
\* guard, and the opens exceed the closes by the first result minus the
\* second: they are equal exactly when the two evaluations agree.
C1_TwoEvaluations ==
    /\ program.via = "scanBlock" =>
         /\ Count(Stream(program), "Block") = 2
         /\ \A s \in Range(Stream(program)) :
              s.op = "Block" => s.expr.op = "FunctionExpression"
    /\ RenderDone =>
         /\ Len(tagEvals) = 2
         /\ opens - closes = Bit(tagEvals[1]) - Bit(tagEvals[2])
         /\ (opens = closes) <=> (tagEvals[1] = tagEvals[2])

C1_Witness ==
    RenderDone /\ tagEvals = <<TRUE, FALSE>> /\ opens = closes + 1

\* C4: right after a successful compile(), the attribute buffer appears in
\* the compiled statement stream as one run in insertion order, and every
\* head statement the template declares that is in the stream comes after
\* that run.
C4_BufferBeforeHead ==
    last = Outcome("compile", "ok") =>
      LET f == Flatten(Stream(program))
          n == Len(buffer)
      IN  \E k \in 0..(Len(f) - n) :
            /\ \A i \in 1..n : f[k + i] = buffer[i]
            /\ \A j \in 1..Len(f) :
                 (layout.hasHead /\ f[j] \in Range(layout.head)) => j > k + n
            /\ \A j \in 1..Len(f) :
                 f[j].op \in {"StaticAttr", "DynamicAttr"} => j > k

C4_Witness ==
    /\ last = Outcome("compile", "ok")
    /\ inner = "unwrapped"
    /\ layout = ElementLayout
    /\ Len(buffer) = 2
    /\ buffer[1] # buffer[2]
    /\ Count(Stream(program), "StaticAttr") >= 2

\* C5 as stated: at most one of the static and dynamic flags is set, and
\* getDynamic() returns nothing once static() was the last call, getStatic()
\* nothing once dynamic() was the last call.
C5_AtMostOneFlag ==
    /\ ~(tag.isStatic /\ tag.isDynamic)
    /\ last = Outcome("tag.static", "ok") => getDynamic(tag) = NoExpr
    /\ last = Outcome("tag.dynamic", "ok") => getStatic(tag) = Undefined

\* C5 amended: static() sets the static flag and name and leaves the dynamic
\* flag and expression as they were, dynamic() sets the dynamic flag and
\* expression and leaves the static ones as they were, and no call other
\* than a bind clears a flag: both flags can be set at once.
C5_FlagsOnlySet ==
    [][ /\ last'.op = "tag.static" =>
             /\ tag'.isDynamic = tag.isDynamic
             /\ tag'.dynamicTagName = tag.dynamicTagName
             /\ last'.status = "ok" => getStatic(tag') \in TagNames
        /\ last'.op = "tag.dynamic" =>
             /\ tag'.isStatic = tag.isStatic
             /\ tag'.staticTagName = tag.staticTagName
             /\ last'.status = "ok" => getDynamic(tag') # NoExpr
        /\ last'.op \notin BindOps =>
             /\ tag.isStatic => tag'.isStatic
             /\ tag.isDynamic => tag'.isDynamic ]_vars

C5_Witness ==
    /\ last = Outcome("tag.static", "ok")
    /\ tag.isStatic /\ tag.isDynamic
    /\ getDynamic(tag) # NoExpr

\* C7: on a builder that was never bound, compile(), a tag read and an
\* attrs read each end in an error, nothing is compiled or configured, and
\* an operation that ended in that error leaves the builder unbound.
C7_UnboundFails ==
    /\ inner = "unbound" =>
         /\ last.op # "new" => last.status = "TypeError"
         /\ program = NoProgram
         /\ tag = NewTag /\ buffer = NewBuffer
    /\ last.status = "TypeError" => inner = "unbound"

C7_Witness ==
    inner = "unbound" /\ last = Outcome("compile", "TypeError")

\* C8: while the bound strategy is Unwrapped, every tag read ends in an
\* error and leaves the strategy, its layout and its attribute buffer as
\* they were, and every attrs read succeeds.
C8_UnwrappedTagFails ==
    [][ /\ (inner = "unwrapped" /\ last'.op \in TagOps) =>
             /\ last'.status = "Error"
             /\ inner' = inner /\ layout' = layout /\ buffer' = buffer
        /\ (inner = "unwrapped" /\ last'.op \in AttrsOps) =>
             last'.status = "ok" ]_vars

C8_Witness ==
    inner = "unwrapped" /\ last = Outcome("tag", "Error") /\ Len(buffer) > 0

\* C9 as stated: whenever the Wrapped strategy compiles, tag.static or
\* tag.dynamic has been called, and no open-element statement of the
\* compiled program carries a missing tag name.
C9_TagSetAtCompile ==
    (last = Outcome("compile", "ok") /\ inner = "wrapped") =>
      /\ tag.isStatic \/ tag.isDynamic
      /\ \A s \in Range(Stream(program)) :
           s.op = "OpenComponentElement" => s.name # Undefined

(***************************************************************************)
(* Properties of the component invocation compiler                         *)
(***************************************************************************)
AfterRegistration ==
    {"beginComponentTransaction", "getComponentSelf", "getComponentLayout",
     "invokeDynamic", "didCreateElement", "didRenderLayout",
     "commitComponentTransaction"}

\* C2: in the opcodes dynamic() emits, registerComponentDestructor is the
\* opcode right after createComponent and comes before
\* beginComponentTransaction, every later render step and the commit; in
\* an execution, a step that comes after the registration runs or is
\* stopped at only once the registration has run.
C2_DestructorRegisteredFirst ==
    emitted # <<>> =>
      LET c == IndexOf(emitted, "createComponent")
          r == IndexOf(emitted, "registerComponentDestructor")
      IN  /\ c > 0 /\ r = c + 1
          /\ Count(emitted, "createComponent") = 1
          /\ Count(emitted, "registerComponentDestructor") = 1
          /\ \A op \in AfterRegistration :
               Count(emitted, op) = 1 /\ IndexOf(emitted, op) > r
          /\ \A i \in 1..Len(trace) :
               trace[i] \in AfterRegistration =>
                 \E j \in 1..(i - 1) : trace[j] = "registerComponentDestructor"
          /\ (stopped /\ pc > r) =>
               \E j \in 1..Len(trace) : trace[j] = "registerComponentDestructor"

C2_Witness ==
    /\ stopped
    /\ pc = IndexOf(emitted, "beginComponentTransaction")
    /\ trace[Len(trace)] = "registerComponentDestructor"
    /\ trace[Len(trace) - 1] = "createComponent"

\* C3: commitComponentTransaction is the last opcode dynamic() emits; it
\* comes after didCreateElement and didRenderLayout, and popScope comes
\* before popDynamicScope, both before the commit.
C3_CommitLast ==
    emitted # <<>> =>
      LET commit == IndexOf(emitted, "commitComponentTransaction") IN
      /\ commit = Len(emitted)
      /\ IndexOf(emitted, "didCreateElement") \in 1..(commit - 1)
      /\ IndexOf(emitted, "didRenderLayout") \in 1..(commit - 1)
      /\ IndexOf(emitted, "popScope") \in 1..(commit - 1)
      /\ IndexOf(emitted, "popScope") < IndexOf(emitted, "popDynamicScope")
      /\ IndexOf(emitted, "popDynamicScope") < commit

C3_Witness ==
    /\ ilast.op = "dynamic" /\ ilast.status = "ok"
    /\ pc = Len(emitted) + 1
    /\ Len(trace) = Len(emitted)
    /\ trace[Len(trace)] = "commitComponentTransaction"

\* C6: a dynamic() call whose definition arguments are missing or empty
\* ends in an error, allocates no local slot and appends no opcode to the
\* builder.
C6_FailsBeforeEmitting ==
    [][ (ilast'.op = "dynamic" /\ units' = units + 1
           /\ MissingArgs(ilast'.definitionArgs)) =>
          /\ ilast'.status = "Error"
          /\ ops' = ops
          /\ locals' = locals
          /\ emitted' = <<>> ]_vars

C6_Witness ==
    /\ ilast.op = "dynamic" /\ ilast.status = "Error"
    /\ ilast.definitionArgs = EmptyArgs
    /\ emitted = <<>>
    /\ Len(ops) > 0
    /\ locals = 2

Prologue == <<"expr", "setLocal", "getLocal", "test", "jumpUnless">>

\* C10: in an execution of the opcodes dynamic() emitted, when the value
\* re-read from the definition slot is not present, the jump goes to END
\* and nothing after the jump runs: the opcodes executed are the
\* evaluation, the slot write, the slot read, the test and the jump.
C10_AbsentSkipsAll ==
    (Len(trace) >= Len(Prologue) /\ vmSlot # "present") =>
      /\ trace = Prologue
      /\ pc = Len(emitted) + 1
      /\ ~vmCond

C10_Witness ==
    /\ trace = Prologue
    /\ vmSlot = "absent"
    /\ pc = Len(emitted) + 1
    /\ Len(emitted) > Len(Prologue) + 1


(***************************************************************************)
(* Further properties of the layout builder                                *)
(***************************************************************************)
Compiled == last = Outcome("compile", "ok")

\* the Wrapped strategy has just compiled along its static-tag path, with a
\* static tag set
StaticCompiled ==
    Compiled /\ inner = "wrapped" /\ program.via = "scanLayout" /\ tag.isStatic

IsPrefix(a, b) == Len(a) <= Len(b) /\ SubSeq(b, 1, Len(a)) = a

\* C12: a bind call always succeeds, also on a bound builder, and the bound
\* strategy is that of the most recent bind call: its kind, its template;
\* a compile() that follows works on that template along that strategy.
C12_LastBindWins ==
    /\ last.op \in BindOps => last.status = "ok" /\ last.op = hist.bindOp
    /\ hist.bindOp # "none" =>
         /\ inner = IF hist.bindOp = "wrapLayout" THEN "wrapped" ELSE "unwrapped"
         /\ layout = hist.bindLayout
    /\ Compiled =>
         /\ Range(hist.bindLayout.statements) \subseteq Range(Stream(program))
         /\ IsPrefix(hist.bindLayout.yields, program.block.yields)
         /\ hist.bindOp = "fromLayout" =>
              /\ program.via = "scanLayout"
              /\ Count(Stream(program), "OpenComponentElement") = 0
         /\ hist.bindOp = "wrapLayout" =>
              Count(Flatten(Stream(program)), "OpenComponentElement")
                + Count(Flatten(Stream(program)), "OpenDynamicElement") = 1

C12_Witness ==
    /\ Compiled
    /\ hist.discarded
    /\ hist.bindOp = "fromLayout"
    /\ layout = ElementLayout
    /\ buffer = NewBuffer


\* C14 as stated: the head a static-tag Wrapped compile hands to scanning is
\* the attribute buffer followed by the template's own head statements.
C14_HeadKept ==
    StaticCompiled =>
      program.block.head =
        buffer \o (IF layout.hasHead THEN layout.head ELSE <<>>)

\* the Wrapped strategy has just compiled along its dynamic-tag path
DynamicCompiled ==
    Compiled /\ inner = "wrapped" /\ program.via = "scanBlock"

\* C16: the statement list a dynamic-tag Wrapped compile hands to scanning
\* is one 'with' guard block on the tag expression whose body is
\* open-dynamic-element, yield of '%attrs%', the buffer entries and
\* flush-element; then the template's statements (after its prelude and
\* head when it has both), none of them guarded; then one 'if' guard block
\* on the same expression whose body is close-element alone.  The yields
\* are the template's with '%attrs%' appended.
C16_DynamicShape ==
    DynamicCompiled =>
      LET s == program.block.statements
          n == Len(buffer)
          open == s[1]
          close == s[Len(s)]
          body == IF layout.hasPrelude /\ layout.hasHead
                  THEN layout.prelude \o layout.head \o layout.statements
                  ELSE layout.statements
      IN  /\ Len(s) = Len(body) + 2
          /\ open.op = "Block" /\ open.name = "with" /\ open.locals = <<"tag">>
          /\ open.expr = tag.dynamicTagName
          /\ open.expr.op = "FunctionExpression"
          /\ Len(open.body) = n + 3
          /\ open.body[1] = Simple("OpenDynamicElement", "tag", NoExpr)
          /\ open.body[2] = Simple("Yield", "%attrs%", NoExpr)
          /\ SubSeq(open.body, 3, n + 2) = buffer
          /\ open.body[n + 3] = Simple("FlushElement", "", NoExpr)
          /\ SubSeq(s, 2, Len(s) - 1) = body
          /\ \A i \in 2..(Len(s) - 1) : s[i].op # "Block"
          /\ close.op = "Block" /\ close.name = "if" /\ close.locals = <<>>
          /\ close.expr = open.expr
          /\ close.body = <<Simple("CloseElement", "", NoExpr)>>
          /\ program.block.yields = layout.yields \o <<"%attrs%">>
          /\ ~program.block.hasPrelude /\ ~program.block.hasHead

C16_Witness ==
    /\ DynamicCompiled
    /\ layout = ElementLayout
    /\ Len(buffer) = 2
    /\ buffer[1].op = "StaticAttr" /\ buffer[2].op = "DynamicAttr"

\* a facade operation is taken
Operation == hist'.tick # hist.tick

\* C17: an attrs.static or attrs.dynamic call that gets through adds exactly
\* one entry at the end of the buffer and leaves the earlier entries as they
\* were; tag reads, tag.static, tag.dynamic, attrs reads and compile() leave
\* the buffer as it was; a compile() right after a compile() returns the
\* same program.
C17_AppendOnly ==
    [][ Operation =>
          /\ (last'.op \in {"attrs.static", "attrs.dynamic"} /\ last'.status = "ok") =>
               /\ Len(buffer') = Len(buffer) + 1
               /\ SubSeq(buffer', 1, Len(buffer)) = buffer
               /\ buffer'[Len(buffer')].op =
                    IF last'.op = "attrs.static" THEN "StaticAttr" ELSE "DynamicAttr"
          /\ last'.op \in {"tag", "attrs", "tag.static", "tag.dynamic", "compile"} =>
               buffer' = buffer
          /\ (last'.op = "compile" /\ Compiled) => program' = program ]_vars

C17_Witness ==
    /\ Compiled
    /\ inner = "wrapped"
    /\ hist.static
    /\ Len(buffer) = 2
    /\ buffer[1].op = "DynamicAttr" /\ buffer[2].op = "StaticAttr"

\* C19: a Wrapped compile takes the dynamic-tag path exactly when
\* tag.dynamic was called since the bind, whatever tag.static calls came
\* before or after it, and the program of that path carries no static tag
\* name.
C19_DynamicWins ==
    (Compiled /\ inner = "wrapped") =>
      /\ program.via = "scanBlock" <=> hist.dynamic
      /\ hist.dynamic =>
           \A s \in Range(Flatten(Stream(program))) :
             s.op # "OpenComponentElement" /\ s.name \notin TagNames

C19_Witness ==
    /\ DynamicCompiled
    /\ hist.static /\ hist.dynamic
    /\ hist.lastTag = "static"
    /\ tag.staticTagName \in TagNames

\* C20: the buffer and the tag hold what the calls since the most recent
\* bind put there and nothing else: a bind leaves an empty buffer and an
\* unset tag, and the attribute statements a compile() adds to the
\* template's own are the entries asked for since that bind; without a
\* tag.static since that bind no static tag name is in the program.
C20_RebindDiscards ==
    /\ buffer = hist.attrs
    /\ tag.isStatic = hist.static /\ tag.isDynamic = hist.dynamic
    /\ last.op \in BindOps => buffer = NewBuffer /\ tag = NewTag
    /\ Compiled =>
         LET f == Flatten(Stream(program))
             Added(x) == /\ x.op \in {"StaticAttr", "DynamicAttr"}
                         /\ x \notin Range(layout.head)
         IN  /\ SelectSeq(f, Added) = hist.attrs
             /\ ~hist.static => \A x \in Range(f) : x.name \notin TagNames
             /\ ~hist.dynamic => Count(f, "OpenDynamicElement") = 0

C20_Witness ==
    /\ Compiled
    /\ hist.discarded
    /\ inner = "wrapped"
    /\ hist.dynamic /\ ~hist.static
    /\ Len(hist.attrs) = 1

(***************************************************************************)
(* Further properties of the component invocation compiler                 *)
(***************************************************************************)
Emitted == ilast.op = "dynamic" /\ ilast.status = "ok"

\* C15: after a dynamic() call with definition arguments and a hash of N
\* named arguments, the one pushComponentArgs emitted carries count N and N
\* names, and the invokeDynamic descriptor carries the same names in the
\* same order, those of the hash.
C15_ArgsCountAndNames ==
    Emitted =>
      LET push == emitted[IndexOf(emitted, "pushComponentArgs")]
          invoke == emitted[IndexOf(emitted, "invokeDynamic")]
          N == Len(ilast.hash)
      IN  /\ Count(emitted, "pushComponentArgs") = 1
          /\ Count(emitted, "invokeDynamic") = 1
          /\ push.count = N
          /\ Len(push.names) = N
          /\ invoke.names = push.names
          /\ invoke.names = ilast.hash

C15_Witness ==
    /\ Emitted
    /\ ilast.hash = <<"body", "footer">>
    /\ emitted[IndexOf(emitted, "pushComponentArgs")].count = 2


TraceCount(op) == Cardinality({i \in 1..Len(trace) : trace[i] = op})

Finished == emitted # <<>> /\ pc = Len(emitted) + 1

\* C18: an execution of the opcodes dynamic() emitted that runs to its end
\* has run beginComponentTransaction and commitComponentTransaction equally
\* often, and pushDynamicScope and popDynamicScope equally often: once each
\* when the definition is present, not at all when it is absent; at every
\* point of an execution each commit that has run has a begin before it.
C18_Balanced ==
    /\ Finished =>
         LET k == IF vmSlot = "present" THEN 1 ELSE 0 IN
         /\ TraceCount("beginComponentTransaction") = k
         /\ TraceCount("commitComponentTransaction") = k
         /\ TraceCount("pushDynamicScope") = k
         /\ TraceCount("popDynamicScope") = k
    /\ \A i \in 1..Len(trace) :
         /\ trace[i] = "commitComponentTransaction" =>
              \E j \in 1..(i - 1) : trace[j] = "beginComponentTransaction"
         /\ trace[i] = "popDynamicScope" =>
              \E j \in 1..(i - 1) : trace[j] = "pushDynamicScope"

C18_Witness ==
    /\ Finished
    /\ vmSlot = "present"
    /\ TraceCount("beginComponentTransaction") = 1
    /\ TraceCount("popDynamicScope") = 1

C18_WitnessAbsent ==
    /\ Finished
    /\ vmSlot = "absent"
    /\ TraceCount("pushDynamicScope") = 0

====
